---- MODULE Spec2Model ----
(***************************************************************************)
(* Model of simple_irc_server.py: one handler thread per connection        *)
(* (handle_client), all of them reading and writing the module-level maps  *)
(* clients, channels and channel_names without any lock.  A step of a      *)
(* handler is one Python statement that touches shared state, together     *)
(* with the statements around it that touch only the handler's own client; *)
(* one turn of a for loop over a shared set or dict is one step.  The main  *)
(* thread (main) accepts the connections and, after a termination signal,  *)
(* disconnects every client itself before the process exits.               *)
(***************************************************************************)
EXTENDS Integers, Sequences, FiniteSets, TLC

\* ----------------------------------------------------------------- bounds
NClients == 3       \* connections the server can hold
RaceConns == 2      \* connections accepted in a run of Spec
MaxCmds == 3        \* messages read, over all connections, in a run of Spec
MaxBatch == 2       \* messages in one read
SessionCmds == 5    \* messages read in a run of SessionSpec
BroadcastCmds == 1  \* messages read in a run of BroadcastSpec
ShutdownCmds == 1   \* messages read in a run of ShutdownSpec
ProtocolCmds == 2   \* reads and messages in a run of ProtocolSpec
MaxBytes == 4       \* bytes a peer sends in a run of FramingSpec
MaxText == 4        \* characters after the target of the PRIVMSG of TrailingSpec

Clients == 1..NClients
\* the main thread, and all threads
Main == 0
Threads == Clients \cup {Main}

\* ------------------------------------------------------------ input values
Hackerbot == <<"#", "h", "a", "c", "k", "e", "r", "b", "o", "t">>
UpperH == <<"#", "H", "a", "c", "k", "e", "r", "b", "o", "t">>
UpperT == <<"#", "T">>
LowerT == <<"#", "t">>
BareT == <<"t">>
BobNick == <<"b", "o", "b">>
None == "None"
Nicks == {"alice"}
MoreNicks == {"alice", "bob"}
Users == {"user"}

\* what the clients of a run send: how many connections, messages and
\* messages per read, the names given to JOIN and PART, and to PRIVMSG and NAMES
RaceEnv == [conns |-> RaceConns, cmds |-> MaxCmds, batch |-> MaxBatch, nicks |-> Nicks,
            join |-> {UpperT, BareT, Hackerbot},
            target |-> {UpperT, LowerT, BobNick, Hackerbot}]

\* one connection, a longer conversation
SessionEnv == [conns |-> 1, cmds |-> SessionCmds, batch |-> MaxBatch, nicks |-> MoreNicks,
               join |-> {UpperT, BareT, Hackerbot, UpperH},
               target |-> {UpperT, LowerT, BobNick, Hackerbot}]

\* three connections and one channel, #T
BroadcastEnv == [conns |-> NClients, cmds |-> BroadcastCmds, batch |-> 1, nicks |-> Nicks,
                 join |-> {UpperT}, target |-> {LowerT}]

\* two connections, one channel, and a termination signal
ShutdownEnv == [conns |-> RaceConns, cmds |-> ShutdownCmds, batch |-> 1, nicks |-> Nicks,
                join |-> {UpperT}, target |-> {Hackerbot}]

\* two connections whose clients also send lines that no branch of
\* handle_message takes, and bytes that are not UTF-8
ProtocolEnv == [conns |-> RaceConns, cmds |-> ProtocolCmds, batch |-> MaxBatch, nicks |-> Nicks,
                join |-> {UpperT}, target |-> {LowerT, BobNick}]

\* str.lower() on the characters the inputs use
LowerChar(ch) ==
    CASE ch = "T" -> "t"
      [] ch = "H" -> "h"
      [] OTHER -> ch

Lower(s) == [i \in DOMAIN s |-> LowerChar(s[i])]

StartsWithHash(s) == Len(s) > 0 /\ s[1] = "#"

\* handle_message, JOIN/PART: if not channel.startswith("#"): channel = "#" + channel
Normalize(s) == IF StartsWithHash(s) THEN s ELSE <<"#">> \o s

Put(f, k, v) == [x \in DOMAIN f \cup {k} |-> IF x = k THEN v ELSE f[x]]
\* del f[k]
Del(f, k) == [x \in DOMAIN f \ {k} |-> f[x]]
Get(f, k, d) == IF k \in DOMAIN f THEN f[k] ELSE d

\* ------------------------------------------------------------------ state
VARIABLES
    env,            \* the run's inputs (never changes)
    clients,        \* keys of the global dict clients
    channels,       \* global dict channels: lowercase key -> set of clients
    channel_names,  \* global dict channel_names: lowercase key -> display name
    nick, user, registered, cchannels,   \* IRCClient fields (cchannels is self.channels)
    conn,           \* the connection: "none" before accept, "open", "reset" by
                    \* the peer, "closed" by the server
    pc,             \* where each handler thread stands
    pending,        \* number of messages of the current read not yet handled
    cur,            \* the message being handled
    channel, key, cname,   \* locals channel, channel_lower, canonical_name
    it,             \* the set iterator of the running for loop
    dit,            \* the dict iterator of LIST's for loop
    todo,           \* disconnect: list(self.channels) not yet parted
    mode,           \* in disconnect called by QUIT ("quit"), by finally ("final"),
                    \* by main ("main")
    sent,           \* lines the handler has sent while handling cur
    err,            \* exception raised while handling cur
    welcomed,       \* number of welcome bursts sent on the connection
    ncmd,           \* number of messages read on all connections
    running,        \* the global flag running
    mclient,        \* main: the client of the loop of line 295
    mleft,          \* main: list(clients.keys()) not yet disconnected
    bytes,          \* line codec: all the bytes a peer sends on its connection
    unread,         \* line codec: those that recv has not returned yet
    messages,       \* line codec: the messages handed to handle_message
    message,        \* PRIVMSG parser: the message given to handle_message
    msg             \* PRIVMSG parser: the relayed text msg, in a sequence of
                    \* one, once it is computed

reg == <<clients, channels, channel_names>>
sess == <<nick, user, registered, cchannels, conn, welcomed>>
locals == <<channel, key, cname, it, dit, todo, mode>>
ctl == <<pc, pending, cur, sent, err, ncmd, env>>
shut == <<running, mclient, mleft>>
codec == <<bytes, unread, messages, message, msg>>
vars == <<reg, sess, locals, ctl, shut, codec>>

\* the client a thread acts for: a handler for its own, main for the one it
\* is disconnecting
Self(t) == IF t = Main THEN mclient ELSE t

\* a set iterator: the set object it walks is channels[key] while live, and a
\* set that no dict entry refers to any more (contents snap) otherwise
NoIt == [on |-> FALSE, live |-> FALSE, key |-> <<>>, snap |-> {}, seen |-> {},
         size |-> 0, fresh |-> {}]
NoDit == [active |-> FALSE, seen |-> {}, n |-> 0, size |-> 0, mod |-> FALSE]
NoErr == [kind |-> "none", at |-> "none"]
NoCmd == [cmd |-> "none", chan |-> <<>>, nick |-> None]

Cmd(c, ch, n) == [cmd |-> c, chan |-> ch, nick |-> n]

\* the messages a client may send
Nick(n) == Cmd("NICK", <<>>, n)
User(u) == Cmd("USER", <<>>, u)
Join(a) == Cmd("JOIN", a, None)
Part(a) == Cmd("PART", a, None)
Privmsg(a) == Cmd("PRIVMSG", a, None)
Names(a) == Cmd("NAMES", a, None)
List == Cmd("LIST", <<>>, None)
Quit == Cmd("QUIT", <<>>, None)

\* IRCClient.send: except: pass; no exception leaves send
SendEscapes(to) == FALSE

\* IRCClient.send: a failed conn.send is swallowed, the line is lost
Line(to, kind, ch, who, n) ==
    [to |-> to, kind |-> kind, chan |-> ch, who |-> who, n |-> n,
     ok |-> conn[to] = "open"]

WelcomeNumerics == <<"001", "002", "003", "004", "251", "255", "372", "376">>

Burst(c) == [i \in 1..Len(WelcomeNumerics) |-> Line(c, WelcomeNumerics[i], <<>>, {}, 0)]

\* welcome without its test of self.user
WelcomesNickOnly(c, n, u) == n # None /\ ~registered[c]

\* welcome without its test of self.registered
WelcomesAgain(c, n, u) == n # None /\ u # None

\* IRCClient.welcome: if self.nick and self.user and not self.registered
Welcomes(c, n, u) == n # None /\ u # None /\ ~registered[c]

\* handle_client: on to the read's next message, or to the next recv
Resume(n) == IF n = 0 THEN "recv" ELSE "next"

\* the same with the test of while running: once running is false the loop is
\* left for finally: client.disconnect()
Stops(n) == n = 0 /\ ~running
Loop(n) == IF Stops(n) THEN "d207" ELSE Resume(n)
LoopMode(n) == IF Stops(n) THEN "final" ELSE "none"
LoopCur(n) == IF Stops(n) THEN [cmd |-> "EOF", chan |-> <<>>, nick |-> None] ELSE NoCmd

InitState ==
    /\ clients = {}
    /\ channels = [k \in {Hackerbot} |-> {}]
    /\ channel_names = [k \in {Hackerbot} |-> Hackerbot]
    /\ nick = [c \in Clients |-> None]
    /\ user = [c \in Clients |-> None]
    /\ registered = [c \in Clients |-> FALSE]
    /\ cchannels = [c \in Clients |-> {}]
    /\ conn = [c \in Clients |-> "none"]
    /\ pc = [c \in Threads |-> IF c = Main THEN "accept" ELSE "idle"]
    /\ pending = [c \in Threads |-> 0]
    /\ cur = [c \in Threads |-> NoCmd]
    /\ channel = [c \in Threads |-> <<>>]
    /\ key = [c \in Threads |-> <<>>]
    /\ cname = [c \in Threads |-> <<>>]
    /\ it = [c \in Threads |-> NoIt]
    /\ dit = [c \in Threads |-> NoDit]
    /\ todo = [c \in Threads |-> {}]
    /\ mode = [c \in Threads |-> "none"]
    /\ sent = [c \in Threads |-> <<>>]
    /\ err = [c \in Threads |-> NoErr]
    /\ welcomed = [c \in Clients |-> 0]
    /\ ncmd = 0
    /\ running = TRUE
    /\ mclient = Main
    /\ mleft = {}

\* no bytes and no message are under study
NoCodec ==
    /\ bytes = <<>>
    /\ unread = <<>>
    /\ messages = <<>>
    /\ message = <<>>
    /\ msg = <<>>

Init == env = RaceEnv /\ InitState /\ NoCodec

\* -------------------------------------------------------- handle_client
\* main: accept, start the thread, and test while running again;
\* handle_client: IRCClient(), clients[client] = True
Accept(c) ==
    /\ pc[c] = "idle"
    /\ c <= env.conns
    /\ \A d \in Clients : d < c => pc[d] # "idle"
    /\ pc[Main] = "accept"
    /\ clients' = clients \cup {c}
    /\ conn' = [conn EXCEPT ![c] = "open"]
    /\ pc' = [pc EXCEPT ![c] = Loop(0), ![Main] = IF running THEN "accept" ELSE "s295"]
    /\ mode' = [mode EXCEPT ![c] = LoopMode(0)]
    /\ cur' = [cur EXCEPT ![c] = LoopCur(0)]
    /\ UNCHANGED <<channels, channel_names, nick, user, registered, cchannels, welcomed,
                   channel, key, cname, it, dit, todo, pending, sent, err, ncmd, env, shut, codec>>

\* data = conn.recv(1024) returned n lines; what each line says is drawn when
\* the for loop reaches it
Recv(c) ==
    /\ pc[c] = "recv"
    /\ conn[c] = "open"
    /\ \E n \in 1..env.batch :
        /\ ncmd + n <= env.cmds
        /\ pending' = [pending EXCEPT ![c] = n]
        /\ ncmd' = ncmd + n
    /\ pc' = [pc EXCEPT ![c] = "next"]
    /\ UNCHANGED <<reg, sess, locals, cur, sent, err, env, shut, codec>>

\* recv returned no data (break) or raised (the peer reset the connection, or
\* the handler's own QUIT has closed it): on to finally: client.disconnect()
RecvEnd(c) ==
    /\ pc[c] = "recv"
    /\ pc' = [pc EXCEPT ![c] = "d207"]
    /\ mode' = [mode EXCEPT ![c] = "final"]
    /\ cur' = [cur EXCEPT ![c] = Cmd("EOF", <<>>, None)]
    /\ UNCHANGED <<reg, sess, channel, key, cname, it, dit, todo, pending, sent, err,
                   ncmd, env, shut, codec>>

\* the next message of the read, m, is handed to handle_message
Begin(c, m) ==
    /\ pc[c] = "next"
    /\ pending[c] > 0
    /\ cur' = [cur EXCEPT ![c] = m]
    /\ pending' = [pending EXCEPT ![c] = @ - 1]

\* handle_message has returned (pc "done"): its frame is gone, and
\* handle_client goes on to the read's next message, or to the next recv
Return(c) ==
    /\ pc[c] = "done"
    /\ pc' = [pc EXCEPT ![c] = Loop(pending[c])]
    /\ mode' = [mode EXCEPT ![c] = LoopMode(pending[c])]
    /\ cur' = [cur EXCEPT ![c] = LoopCur(pending[c])]
    /\ sent' = [sent EXCEPT ![c] = <<>>]
    /\ channel' = [channel EXCEPT ![c] = <<>>]
    /\ key' = [key EXCEPT ![c] = <<>>]
    /\ cname' = [cname EXCEPT ![c] = <<>>]
    /\ UNCHANGED <<reg, sess, it, dit, todo, pending, err, ncmd, env, shut, codec>>

\* an exception leaves handle_message: except (print), finally: disconnect().
\* Raised inside that last disconnect, or inside main's, it ends the thread.
Raise(c, kind, at) ==
    /\ err' = [err EXCEPT ![c] = [kind |-> kind, at |-> at]]
    /\ it' = [it EXCEPT ![c] = NoIt]
    /\ dit' = [dit EXCEPT ![c] = NoDit]
    /\ todo' = [todo EXCEPT ![c] = {}]
    /\ pending' = [pending EXCEPT ![c] = 0]
    /\ mode' = [mode EXCEPT ![c] = IF mode[c] \in {"final", "main"} THEN "none" ELSE "final"]
    /\ pc' = [pc EXCEPT ![c] = IF mode[c] \in {"final", "main"} THEN "crashed" ELSE "d207"]
    /\ UNCHANGED <<reg, sess, channel, key, cname, cur, sent, ncmd, env, shut, codec>>

\* --------------------------------------------------- NICK, USER (135-141)
DoNick(c) ==
    \E n \in env.nicks : LET m == Nick(n) IN
    /\ Begin(c, m)
    /\ nick' = [nick EXCEPT ![c] = m.nick]
    /\ IF Welcomes(c, m.nick, user[c])
       THEN /\ sent' = [sent EXCEPT ![c] = Burst(c)]
            /\ registered' = [registered EXCEPT ![c] = TRUE]
            /\ welcomed' = [welcomed EXCEPT ![c] = @ + 1]
       ELSE UNCHANGED <<sent, registered, welcomed>>
    /\ pc' = [pc EXCEPT ![c] = "done"]
    /\ UNCHANGED <<reg, user, cchannels, conn, locals, err, ncmd, env, shut, codec>>

DoUser(c) ==
    \E u \in Users : LET m == User(u) IN
    /\ Begin(c, m)
    /\ user' = [user EXCEPT ![c] = m.nick]
    /\ IF Welcomes(c, nick[c], m.nick)
       THEN /\ sent' = [sent EXCEPT ![c] = Burst(c)]
            /\ registered' = [registered EXCEPT ![c] = TRUE]
            /\ welcomed' = [welcomed EXCEPT ![c] = @ + 1]
       ELSE UNCHANGED <<sent, registered, welcomed>>
    /\ pc' = [pc EXCEPT ![c] = "done"]
    /\ UNCHANGED <<reg, nick, cchannels, conn, locals, err, ncmd, env, shut, codec>>

\* ------------------------------------------------------ iteration helpers
\* the contents of the set object an iterator walks
SetOf(i) == IF i.live THEN channels[i.key] ELSE i.snap

\* iter(channels[k]): the iterator keeps the set object and its size
NewIt(k) == [on |-> TRUE, live |-> TRUE, key |-> k, snap |-> {}, seen |-> {},
             size |-> Cardinality(channels[k]), fresh |-> {}]

\* channels[k] is deleted or replaced: the iterators on the old set keep it
Detach(its, k) ==
    [c \in Threads |->
        IF its[c].on /\ its[c].live /\ its[c].key = k
        THEN [its[c] EXCEPT !.live = FALSE, !.snap = channels[k]]
        ELSE its[c]]

\* channels[k].add(d) while other threads iterate over the set: where d lands
\* in the table decides whether a running iterator still reaches it
NoteAdd(its, k, d) ==
    [c \in Threads |->
        IF its[c].on /\ its[c].live /\ its[c].key = k /\ d \notin channels[k]
        THEN [its[c] EXCEPT !.fresh = @ \cup {d}]
        ELSE its[c]]

\* next() raises RuntimeError: Set changed size during iteration
ItChanged(c) == Cardinality(SetOf(it[c])) # it[c].size
\* elements in the set since the loop began and not yet reached
MustVisit(c) == (SetOf(it[c]) \ it[c].seen) \ it[c].fresh
\* elements (re)added since the loop began
MayVisit(c) == SetOf(it[c]) \cap it[c].fresh
Yielded(c, x) == [it[c] EXCEPT !.seen = @ \cup {x}, !.fresh = @ \ {x}]

\* a new key in the dict channels while other threads iterate over it
NoteInsert(dits, k) ==
    [c \in Threads |->
        IF dits[c].active /\ k \notin DOMAIN channels
        THEN [dits[c] EXCEPT !.mod = TRUE, !.seen = @ \ {k}]
        ELSE dits[c]]

\* the loop's exit: the iterator is dropped
LoopEnd(c, to) ==
    /\ MustVisit(c) = {}
    /\ it' = [it EXCEPT ![c] = NoIt]
    /\ pc' = [pc EXCEPT ![c] = to]
    /\ UNCHANGED <<reg, sess, channel, key, cname, dit, todo, mode, pending, cur,
                   sent, err, ncmd, env, shut, codec>>

\* [c.nick for c in channels[channel_lower] if c.nick]
NickList(k) == {d \in channels[k] : nick[d] # None}

\* ------------------------------------------------ JOIN (143-147, 59-86)
\* a join_channel that takes every channel for a new one
CreatesAlways(k) == TRUE

\* if channel_lower not in channels
Creates(k) == k \notin DOMAIN channels

\* channel_lower = channel.lower(); if channel_lower not in channels
DoJoin(c) ==
    \E a \in env.join : LET m == Join(a) IN
    /\ Begin(c, m)
    /\ LET ch == Normalize(m.chan) IN
        /\ channel' = [channel EXCEPT ![c] = ch]
        /\ key' = [key EXCEPT ![c] = Lower(ch)]
        /\ pc' = [pc EXCEPT ![c] = IF Creates(Lower(ch)) THEN "j66" ELSE "j70"]
    /\ UNCHANGED <<reg, sess, cname, it, dit, todo, mode, sent, err, ncmd, env, shut, codec>>

\* channels[channel_lower] = set()
J66(c) ==
    /\ pc[c] = "j66"
    /\ channels' = Put(channels, key[c], {})
    /\ it' = IF key[c] \in DOMAIN channels THEN Detach(it, key[c]) ELSE it
    /\ dit' = NoteInsert(dit, key[c])
    /\ pc' = [pc EXCEPT ![c] = "j67"]
    /\ UNCHANGED <<clients, channel_names, sess, channel, key, cname, todo, mode,
                   pending, cur, sent, err, ncmd, env, shut, codec>>

\* channel_names[channel_lower] = channel
J67(c) ==
    /\ pc[c] = "j67"
    /\ channel_names' = Put(channel_names, key[c], channel[c])
    /\ pc' = [pc EXCEPT ![c] = "j70"]
    /\ UNCHANGED <<clients, channels, sess, locals, pending, cur, sent, err, ncmd, env, shut, codec>>

\* canonical_name = channel_names[channel_lower]; self.channels.add(channel_lower)
J70(c) ==
    /\ pc[c] = "j70"
    /\ IF key[c] \in DOMAIN channel_names
       THEN /\ cname' = [cname EXCEPT ![c] = channel_names[key[c]]]
            /\ cchannels' = [cchannels EXCEPT ![c] = @ \cup {key[c]}]
            /\ pc' = [pc EXCEPT ![c] = "j73"]
            /\ UNCHANGED <<reg, nick, user, registered, conn, welcomed, channel, key,
                           it, dit, todo, mode, pending, cur, sent, err, ncmd, env, shut, codec>>
       ELSE Raise(c, "KeyError", "j70")

\* channels[channel_lower].add(self); send JOIN and 331 to the joiner
J73(c) ==
    /\ pc[c] = "j73"
    /\ IF key[c] \in DOMAIN channels
       THEN /\ channels' = [channels EXCEPT ![key[c]] = @ \cup {c}]
            /\ it' = NoteAdd(it, key[c], c)
            /\ sent' = [sent EXCEPT ![c] = @ \o
                         <<Line(c, "JOIN", cname[c], {}, 0), Line(c, "331", cname[c], {}, 0)>>]
            /\ pc' = [pc EXCEPT ![c] = "j80"]
            /\ UNCHANGED <<clients, channel_names, sess, channel, key, cname,
                           dit, todo, mode, pending, cur, err, ncmd, env, shut, codec>>
       ELSE Raise(c, "KeyError", "j73")

\* 353 with the nicks of channels[channel_lower], then 366
J80(c) ==
    /\ pc[c] = "j80"
    /\ IF key[c] \in DOMAIN channels
       THEN /\ sent' = [sent EXCEPT ![c] = @ \o
                         <<Line(c, "353", cname[c], NickList(key[c]), 0),
                           Line(c, "366", cname[c], {}, 0)>>]
            /\ pc' = [pc EXCEPT ![c] = "j84"]
            /\ UNCHANGED <<reg, sess, locals, pending, cur, err, ncmd, env, shut, codec>>
       ELSE Raise(c, "KeyError", "j80")

\* for client in channels[channel_lower]: the loop takes its iterator
J84(c) ==
    /\ pc[c] = "j84"
    /\ IF key[c] \in DOMAIN channels
       THEN /\ it' = [it EXCEPT ![c] = NewIt(key[c])]
            /\ pc' = [pc EXCEPT ![c] = "j85"]
            /\ UNCHANGED <<reg, sess, channel, key, cname, dit, todo, mode,
                           pending, cur, sent, err, ncmd, env, shut, codec>>
       ELSE Raise(c, "KeyError", "j84")

\* one turn of the loop: if client != self: client.send(JOIN)
J85(c) ==
    /\ pc[c] = "j85"
    /\ IF ItChanged(c)
       THEN Raise(c, "RuntimeError", "j85")
       ELSE \/ \E x \in MustVisit(c) \cup MayVisit(c) :
                IF x # c /\ SendEscapes(x)
                THEN Raise(c, "OSError", "j85")
                ELSE /\ it' = [it EXCEPT ![c] = Yielded(c, x)]
                     /\ sent' = [sent EXCEPT ![c] =
                                  IF x # c THEN Append(@, Line(x, "JOIN", cname[c], {}, 0)) ELSE @]
                     /\ UNCHANGED <<reg, sess, channel, key, cname, dit, todo, mode,
                                    pc, pending, cur, err, ncmd, env, shut, codec>>
            \/ LoopEnd(c, "done")

\* ------------------------------------------------ PART (149-153, 88-111)
\* part_channel returns to handle_message, or to disconnect's loop
PartReturn(c) == IF mode[c] = "none" THEN "done" ELSE "d211"

\* part_channel without its test of self.channels
LeavesAnyway(c, k) == TRUE

\* if channel_lower in self.channels
Leaves(c, k) == k \in cchannels[c]

\* if channel_lower in self.channels: self.channels.remove(channel_lower)
DoPart(c) ==
    \E a \in env.join : LET m == Part(a) IN
    /\ Begin(c, m)
    /\ LET ch == Normalize(m.chan) IN
        /\ channel' = [channel EXCEPT ![c] = ch]
        /\ key' = [key EXCEPT ![c] = Lower(ch)]
        /\ IF Leaves(c, Lower(ch))
           THEN /\ cchannels' = [cchannels EXCEPT ![c] = @ \ {Lower(ch)}]
                /\ pc' = [pc EXCEPT ![c] = "p94"]
           ELSE /\ UNCHANGED cchannels
                /\ pc' = [pc EXCEPT ![c] = "done"]
    /\ UNCHANGED <<reg, nick, user, registered, conn, welcomed, cname, it, dit, todo,
                   mode, sent, err, ncmd, env, shut, codec>>

\* if self in channels[channel_lower]
P94(c) ==
    /\ pc[c] = "p94"
    /\ IF key[c] \in DOMAIN channels
       THEN /\ pc' = [pc EXCEPT ![c] = IF Self(c) \in channels[key[c]] THEN "p95" ELSE "p98"]
            /\ UNCHANGED <<reg, sess, locals, pending, cur, sent, err, ncmd, env, shut, codec>>
       ELSE Raise(c, "KeyError", "p94")

\* channels[channel_lower].remove(self)
P95(c) ==
    /\ pc[c] = "p95"
    /\ IF key[c] \in DOMAIN channels /\ Self(c) \in channels[key[c]]
       THEN /\ channels' = [channels EXCEPT ![key[c]] = @ \ {Self(c)}]
            /\ pc' = [pc EXCEPT ![c] = "p98"]
            /\ UNCHANGED <<clients, channel_names, sess, locals, pending, cur, sent,
                           err, ncmd, env, shut, codec>>
       ELSE Raise(c, "KeyError", "p95")

\* canonical_name = channel_names.get(channel_lower, channel); PART to the leaver
P98(c) ==
    /\ pc[c] = "p98"
    /\ LET cn == Get(channel_names, key[c], channel[c]) IN
        /\ cname' = [cname EXCEPT ![c] = cn]
        /\ sent' = [sent EXCEPT ![c] = Append(@, Line(Self(c), "PART", cn, {}, 0))]
    /\ pc' = [pc EXCEPT ![c] = "p104"]
    /\ UNCHANGED <<reg, sess, channel, key, it, dit, todo, mode, pending, cur, err,
                   ncmd, env, shut, codec>>

\* for client in channels[channel_lower]: the loop takes its iterator
P104(c) ==
    /\ pc[c] = "p104"
    /\ IF key[c] \in DOMAIN channels
       THEN /\ it' = [it EXCEPT ![c] = NewIt(key[c])]
            /\ pc' = [pc EXCEPT ![c] = "p105"]
            /\ UNCHANGED <<reg, sess, channel, key, cname, dit, todo, mode,
                           pending, cur, sent, err, ncmd, env, shut, codec>>
       ELSE Raise(c, "KeyError", "p104")

\* one turn of the loop: client.send(PART)
P105(c) ==
    /\ pc[c] = "p105"
    /\ IF ItChanged(c)
       THEN Raise(c, "RuntimeError", "p105")
       ELSE \/ \E x \in MustVisit(c) \cup MayVisit(c) :
                IF SendEscapes(x)
                THEN Raise(c, "OSError", "p105")
                ELSE /\ it' = [it EXCEPT ![c] = Yielded(c, x)]
                     /\ sent' = [sent EXCEPT ![c] = Append(@, Line(x, "PART", cname[c], {}, 0))]
                     /\ UNCHANGED <<reg, sess, channel, key, cname, dit, todo, mode,
                                    pc, pending, cur, err, ncmd, env, shut, codec>>
            \/ LoopEnd(c, "p108")

\* if not channels[channel_lower]
P108(c) ==
    /\ pc[c] = "p108"
    /\ IF key[c] \in DOMAIN channels
       THEN /\ pc' = [pc EXCEPT ![c] =
                       IF channels[key[c]] = {} THEN "p109" ELSE PartReturn(c)]
            /\ UNCHANGED <<reg, sess, locals, pending, cur, sent, err, ncmd, env, shut, codec>>
       ELSE Raise(c, "KeyError", "p108")

\* del channels[channel_lower]
P109(c) ==
    /\ pc[c] = "p109"
    /\ IF key[c] \in DOMAIN channels
       THEN /\ channels' = Del(channels, key[c])
            /\ it' = Detach(it, key[c])
            /\ pc' = [pc EXCEPT ![c] = "p110"]
            /\ UNCHANGED <<clients, channel_names, sess, channel, key, cname, dit, todo,
                           mode, pending, cur, sent, err, ncmd, env, shut, codec>>
       ELSE Raise(c, "KeyError", "p109")

\* if channel_lower in channel_names
P110(c) ==
    /\ pc[c] = "p110"
    /\ pc' = [pc EXCEPT ![c] =
               IF key[c] \in DOMAIN channel_names THEN "p111" ELSE PartReturn(c)]
    /\ UNCHANGED <<reg, sess, locals, pending, cur, sent, err, ncmd, env, shut, codec>>

\* del channel_names[channel_lower]
P111(c) ==
    /\ pc[c] = "p111"
    /\ IF key[c] \in DOMAIN channel_names
       THEN /\ channel_names' = Del(channel_names, key[c])
            /\ pc' = [pc EXCEPT ![c] = PartReturn(c)]
            /\ UNCHANGED <<clients, channels, sess, locals, pending, cur, sent,
                           err, ncmd, env, shut, codec>>
       ELSE Raise(c, "KeyError", "p111")

\* ------------------------------------------- QUIT, disconnect (180, 205-220)
DoQuit(c) ==
    /\ Begin(c, Quit)
    /\ mode' = [mode EXCEPT ![c] = "quit"]
    /\ pc' = [pc EXCEPT ![c] = "d207"]
    /\ UNCHANGED <<reg, sess, channel, key, cname, it, dit, todo, sent, err, ncmd, env, shut, codec>>

\* if self in clients: del clients[self]; the loop's list(self.channels)
D207(c) ==
    /\ pc[c] = "d207"
    /\ clients' = clients \ {Self(c)}
    /\ todo' = [todo EXCEPT ![c] = cchannels[Self(c)]]
    /\ pc' = [pc EXCEPT ![c] = "d211"]
    /\ UNCHANGED <<channels, channel_names, sess, channel, key, cname, it, dit,
                   mode, pending, cur, sent, err, ncmd, env, shut, codec>>

\* one turn of the loop: canonical_name = channel_names.get(channel_lower,
\* channel_lower); self.part_channel(canonical_name), up to its line 93
D211(c) ==
    /\ pc[c] = "d211"
    /\ todo[c] # {}
    /\ \E k \in todo[c] :
        LET canon == Get(channel_names, k, k) IN
        /\ todo' = [todo EXCEPT ![c] = @ \ {k}]
        /\ channel' = [channel EXCEPT ![c] = canon]
        /\ key' = [key EXCEPT ![c] = Lower(canon)]
        /\ IF Leaves(Self(c), Lower(canon))
           THEN /\ cchannels' = [cchannels EXCEPT ![Self(c)] = @ \ {Lower(canon)}]
                /\ pc' = [pc EXCEPT ![c] = "p94"]
           ELSE UNCHANGED <<cchannels, pc>>
    /\ UNCHANGED <<reg, nick, user, registered, conn, welcomed, cname, it, dit, mode,
                   pending, cur, sent, err, ncmd, env, shut, codec>>

\* after the loop: self.conn.close(); back to handle_message, or to main's
\* loop, or the thread ends and its frames are gone
D217(c) ==
    /\ pc[c] = "d211"
    /\ todo[c] = {}
    /\ conn' = [conn EXCEPT ![Self(c)] = "closed"]
    /\ mode' = [mode EXCEPT ![c] = "none"]
    /\ IF mode[c] = "quit"
       THEN /\ pc' = [pc EXCEPT ![c] = "done"]
            /\ UNCHANGED <<cur, sent, channel, key, cname>>
       ELSE /\ pc' = [pc EXCEPT ![c] = IF mode[c] = "main" THEN "s296" ELSE "ended"]
            /\ cur' = [cur EXCEPT ![c] = NoCmd]
            /\ sent' = [sent EXCEPT ![c] = <<>>]
            /\ channel' = [channel EXCEPT ![c] = <<>>]
            /\ key' = [key EXCEPT ![c] = <<>>]
            /\ cname' = [cname EXCEPT ![c] = <<>>]
    /\ UNCHANGED <<reg, nick, user, registered, cchannels, welcomed,
                   it, dit, todo, pending, err, ncmd, env, shut, codec>>

\* ----------------------------------------------------- PRIVMSG (155-172)
\* a handler with no reply to a target it does not find
NoReply(c, target) == <<>>

\* self.send_numeric("401", self.nick, f"{target} :No such nick/channel")
NoSuchNick(c, target) == <<Line(c, "401", target, {}, 0)>>

\* if target.startswith("#"): if target_lower in channels: ... else 401
DoPrivmsg(c) ==
    \E a \in env.target : LET m == Privmsg(a) IN
    /\ Begin(c, m)
    /\ IF StartsWithHash(m.chan)
       THEN /\ channel' = [channel EXCEPT ![c] = m.chan]
            /\ key' = [key EXCEPT ![c] = Lower(m.chan)]
            /\ IF Lower(m.chan) \in DOMAIN channels
               THEN /\ UNCHANGED sent
                    /\ pc' = [pc EXCEPT ![c] = "m163"]
               ELSE /\ sent' = [sent EXCEPT ![c] = NoSuchNick(c, m.chan)]
                    /\ pc' = [pc EXCEPT ![c] = "done"]
       ELSE /\ sent' = [sent EXCEPT ![c] = NoSuchNick(c, m.chan)]
            /\ pc' = [pc EXCEPT ![c] = "done"]
            /\ UNCHANGED <<channel, key>>
    /\ UNCHANGED <<reg, sess, cname, it, dit, todo, mode, err, ncmd, env, shut, codec>>

\* canonical_name = channel_names.get(target_lower, target)
M163(c) ==
    /\ pc[c] = "m163"
    /\ cname' = [cname EXCEPT ![c] = Get(channel_names, key[c], channel[c])]
    /\ pc' = [pc EXCEPT ![c] = "m165"]
    /\ UNCHANGED <<reg, sess, channel, key, it, dit, todo, mode, pending, cur, sent,
                   err, ncmd, env, shut, codec>>

\* for client in channels[target_lower]: the loop takes its iterator
M165(c) ==
    /\ pc[c] = "m165"
    /\ IF key[c] \in DOMAIN channels
       THEN /\ it' = [it EXCEPT ![c] = NewIt(key[c])]
            /\ pc' = [pc EXCEPT ![c] = "m166"]
            /\ UNCHANGED <<reg, sess, channel, key, cname, dit, todo, mode,
                           pending, cur, sent, err, ncmd, env, shut, codec>>
       ELSE Raise(c, "KeyError", "m165")

\* the relay loop without its test of the sender
RelaysToAll(c, x) == TRUE

\* if client != self
Relays(c, x) == x # c

\* one turn of the loop: if client != self: client.send(PRIVMSG)
M166(c) ==
    /\ pc[c] = "m166"
    /\ IF ItChanged(c)
       THEN Raise(c, "RuntimeError", "m166")
       ELSE \/ \E x \in MustVisit(c) \cup MayVisit(c) :
                IF Relays(c, x) /\ SendEscapes(x)
                THEN Raise(c, "OSError", "m166")
                ELSE /\ it' = [it EXCEPT ![c] = Yielded(c, x)]
                     /\ sent' = [sent EXCEPT ![c] =
                                  IF Relays(c, x)
                                  THEN Append(@, Line(x, "PRIVMSG", cname[c], {}, 0))
                                  ELSE @]
                     /\ UNCHANGED <<reg, sess, channel, key, cname, dit, todo, mode,
                                    pc, pending, cur, err, ncmd, env, shut, codec>>
            \/ LoopEnd(c, "done")

\* ---------------------------------------------------------- LIST (190-194)
\* for channel_lower in channels: the loop takes the dict's iterator
DoList(c) ==
    /\ Begin(c, List)
    /\ dit' = [dit EXCEPT ![c] = [active |-> TRUE, seen |-> {}, n |-> 0,
                                  size |-> Cardinality(DOMAIN channels), mod |-> FALSE]]
    /\ pc' = [pc EXCEPT ![c] = "l191"]
    /\ UNCHANGED <<reg, sess, channel, key, cname, it, todo, mode, sent, err, ncmd, env, shut, codec>>

\* next() raises RuntimeError: dictionary changed size during iteration
DitChanged(c) == Cardinality(DOMAIN channels) # dit[c].size
\* keys the iterator has not passed
DitLeft(c) == DOMAIN channels \ dit[c].seen

\* next() on the dict iterator: the next key; or the end of the loop and 323;
\* or RuntimeError.  After an insertion the entries have moved: a key may be
\* passed over, and a key found after size keys were given raises
\* RuntimeError: dictionary keys changed during iteration
L191(c) ==
    /\ pc[c] = "l191"
    /\ IF DitChanged(c)
       THEN Raise(c, "RuntimeError", "l191")
       ELSE \/ /\ dit[c].n < dit[c].size
               /\ \E k \in DitLeft(c) :
                   /\ dit' = [dit EXCEPT ![c] = [@ EXCEPT !.seen = @ \cup {k}, !.n = @ + 1]]
                   /\ key' = [key EXCEPT ![c] = k]
               /\ pc' = [pc EXCEPT ![c] = "l192"]
               /\ UNCHANGED <<reg, sess, channel, cname, it, todo, mode,
                              pending, cur, sent, err, ncmd, env, shut, codec>>
            \/ /\ DitLeft(c) = {} \/ dit[c].mod
               /\ dit' = [dit EXCEPT ![c] = NoDit]
               /\ sent' = [sent EXCEPT ![c] = Append(@, Line(c, "323", <<>>, {}, 0))]
               /\ pc' = [pc EXCEPT ![c] = "done"]
               /\ UNCHANGED <<reg, sess, channel, key, cname, it, todo, mode,
                              pending, cur, err, ncmd, env, shut, codec>>
            \/ /\ dit[c].n >= dit[c].size
               /\ DitLeft(c) # {}
               /\ Raise(c, "RuntimeError", "l191")

\* canonical_name = channel_names.get(channel_lower, channel_lower)
L192(c) ==
    /\ pc[c] = "l192"
    /\ cname' = [cname EXCEPT ![c] = Get(channel_names, key[c], key[c])]
    /\ pc' = [pc EXCEPT ![c] = "l193"]
    /\ UNCHANGED <<reg, sess, channel, key, it, dit, todo, mode, pending, cur, sent,
                   err, ncmd, env, shut, codec>>

\* 322 with len(channels[channel_lower])
L193(c) ==
    /\ pc[c] = "l193"
    /\ IF key[c] \in DOMAIN channels
       THEN /\ sent' = [sent EXCEPT ![c] = Append(@,
                 Line(c, "322", cname[c], {}, Cardinality(channels[key[c]])))]
            /\ pc' = [pc EXCEPT ![c] = "l191"]
            /\ UNCHANGED <<reg, sess, locals, pending, cur, err, ncmd, env, shut, codec>>
       ELSE Raise(c, "KeyError", "l193")

\* --------------------------------------------------------- NAMES (196-203)
\* channel_lower = channel.lower(); if channel_lower in channels: ... ; 366
DoNames(c) ==
    \E a \in env.target : LET m == Names(a) IN
    /\ Begin(c, m)
    /\ channel' = [channel EXCEPT ![c] = m.chan]
    /\ key' = [key EXCEPT ![c] = Lower(m.chan)]
    /\ IF Lower(m.chan) \in DOMAIN channels
       THEN /\ UNCHANGED sent
            /\ pc' = [pc EXCEPT ![c] = "n200"]
       ELSE /\ sent' = [sent EXCEPT ![c] = <<Line(c, "366", m.chan, {}, 0)>>]
            /\ pc' = [pc EXCEPT ![c] = "done"]
    /\ UNCHANGED <<reg, sess, cname, it, dit, todo, mode, err, ncmd, env, shut, codec>>

\* canonical_name = channel_names.get(channel_lower, channel)
N200(c) ==
    /\ pc[c] = "n200"
    /\ cname' = [cname EXCEPT ![c] = Get(channel_names, key[c], channel[c])]
    /\ pc' = [pc EXCEPT ![c] = "n201"]
    /\ UNCHANGED <<reg, sess, channel, key, it, dit, todo, mode, pending, cur, sent,
                   err, ncmd, env, shut, codec>>

\* nicks = [c.nick for c in channels[channel_lower] if c.nick]; 353; 366
N201(c) ==
    /\ pc[c] = "n201"
    /\ IF key[c] \in DOMAIN channels
       THEN /\ sent' = [sent EXCEPT ![c] = @ \o
                         <<Line(c, "353", cname[c], NickList(key[c]), 0),
                           Line(c, "366", channel[c], {}, 0)>>]
            /\ pc' = [pc EXCEPT ![c] = "done"]
            /\ UNCHANGED <<reg, sess, locals, pending, cur, err, ncmd, env, shut, codec>>
       ELSE Raise(c, "KeyError", "n201")

\* ------------------------------------------- shutdown (244-248, 285-296)
\* signal_handler: running = False.  The signal finds main blocked in
\* accept(), which is then tried again, or between two calls of it
Signal ==
    /\ running
    /\ pc[Main] = "accept"
    /\ running' = FALSE
    /\ \E to \in {"accept", "s295"} : pc' = [pc EXCEPT ![Main] = to]
    /\ UNCHANGED <<reg, sess, locals, pending, cur, sent, err, ncmd, env, mclient, mleft, codec>>

\* finally: the server socket is closed; list(clients.keys())
S295 ==
    /\ pc[Main] = "s295"
    /\ mleft' = clients
    /\ pc' = [pc EXCEPT ![Main] = "s296"]
    /\ UNCHANGED <<reg, sess, locals, pending, cur, sent, err, ncmd, env, running, mclient, codec>>

\* one turn of the loop of line 295: client.disconnect()
S296 ==
    /\ pc[Main] = "s296"
    /\ \E x \in mleft :
        /\ mclient' = x
        /\ mleft' = mleft \ {x}
    /\ mode' = [mode EXCEPT ![Main] = "main"]
    /\ pc' = [pc EXCEPT ![Main] = "d207"]
    /\ UNCHANGED <<reg, sess, channel, key, cname, it, dit, todo, pending, cur, sent,
                   err, ncmd, env, running, codec>>

\* main returns, or an exception has left it: the process exits, and its
\* daemon threads with it
Exit ==
    /\ \/ pc[Main] = "s296" /\ mleft = {}
       \/ pc[Main] = "crashed"
    /\ pc' = [t \in Threads |->
                IF t = Main THEN "exit"
                ELSE IF pc[t] \in {"idle", "ended", "crashed"} THEN pc[t] ELSE "killed"]
    /\ UNCHANGED <<reg, sess, locals, pending, cur, sent, err, ncmd, env, shut, codec>>

\* ------------------------------------------------------------ the program
\* a step of thread c
Step(c) ==
    \/ Accept(c) \/ Recv(c) \/ RecvEnd(c) \/ Return(c)
    \/ DoNick(c) \/ DoUser(c)
    \/ DoJoin(c) \/ J66(c) \/ J67(c) \/ J70(c) \/ J73(c) \/ J80(c) \/ J84(c) \/ J85(c)
    \/ DoPart(c) \/ P94(c) \/ P95(c) \/ P98(c) \/ P104(c) \/ P105(c) \/ P108(c)
    \/ P109(c) \/ P110(c) \/ P111(c)
    \/ DoQuit(c) \/ D207(c) \/ D211(c) \/ D217(c)
    \/ DoPrivmsg(c) \/ M163(c) \/ M165(c) \/ M166(c)
    \/ DoList(c) \/ L191(c) \/ L192(c) \/ L193(c)
    \/ DoNames(c) \/ N200(c) \/ N201(c)

\* the handlers, while no termination signal arrives
Next == \E c \in Clients : Step(c)

\* the handlers and main, with a termination signal
ShutdownNext ==
    \/ \E c \in Threads : Step(c)
    \/ Signal \/ S295 \/ S296 \/ Exit

Spec == Init /\ [][Next]_vars

\* one client alone
SessionInit == env = SessionEnv /\ InitState /\ NoCodec
SessionSpec == SessionInit /\ [][Next]_vars

\* the clients 1..n have connected and each has sent JOIN #T; their handlers
\* are back at recv.  The others have not connected yet.
JoinedAs(n, cn) ==
    /\ clients = 1..n
    /\ channels = [k \in {Hackerbot, LowerT} |-> IF k = LowerT THEN 1..n ELSE {}]
    /\ channel_names = [k \in {Hackerbot, LowerT} |-> IF k = LowerT THEN UpperT ELSE k]
    /\ nick = [c \in Clients |-> None]
    /\ user = [c \in Clients |-> None]
    /\ registered = [c \in Clients |-> FALSE]
    /\ cchannels = [c \in Clients |-> IF c <= n THEN {LowerT} ELSE {}]
    /\ conn = cn
    /\ pc = [c \in Threads |-> IF c = Main THEN "accept" ELSE IF c <= n THEN "recv" ELSE "idle"]
    /\ pending = [c \in Threads |-> 0]
    /\ cur = [c \in Threads |-> NoCmd]
    /\ channel = [c \in Threads |-> <<>>]
    /\ key = [c \in Threads |-> <<>>]
    /\ cname = [c \in Threads |-> <<>>]
    /\ it = [c \in Threads |-> NoIt]
    /\ dit = [c \in Threads |-> NoDit]
    /\ todo = [c \in Threads |-> {}]
    /\ mode = [c \in Threads |-> "none"]
    /\ sent = [c \in Threads |-> <<>>]
    /\ err = [c \in Threads |-> NoErr]
    /\ welcomed = [c \in Clients |-> 0]
    /\ ncmd = 0
    /\ running = TRUE
    /\ mclient = Main
    /\ mleft = {}

\* the connections of the clients 1..n are open
Opened(n) == [c \in Clients |-> IF c <= n THEN "open" ELSE "none"]
Joined(n) == JoinedAs(n, Opened(n))

BroadcastInit == env = BroadcastEnv /\ \E n \in {NClients - 1, NClients} : Joined(n) /\ NoCodec

BroadcastSpec == BroadcastInit /\ [][Next]_vars

\* the same; when all the clients have joined, the peer of the last has reset
\* its connection, which its handler, blocked in recv, is about to find out
LostPeer == JoinedAs(NClients, [Opened(NClients) EXCEPT ![NClients] = "reset"])
SendFailInit == env = BroadcastEnv /\ (Joined(NClients - 1) \/ LostPeer) /\ NoCodec
SendFailSpec == SendFailInit /\ [][Next]_vars

\* a fresh server that receives a termination signal
ShutdownInit == env = ShutdownEnv /\ InitState /\ NoCodec
ShutdownSpec == ShutdownInit /\ [][ShutdownNext]_vars

\* ------------------------------------- lines no branch takes (113-203, 234)
\* the commands handle_message has a branch for
Known == {"CAP", "NICK", "USER", "JOIN", "PART", "PRIVMSG", "PING", "QUIT", "WHOIS",
          "LIST", "NAMES"}

\* the least len(parts) with which the branch of a command is taken:
\* len(parts) > 1, > 4 for USER, > 2 for PRIVMSG, and no test for the others
MinParts(w) ==
    CASE w \in {"CAP", "NICK", "JOIN", "PART", "WHOIS", "NAMES"} -> 2
      [] w = "USER" -> 5
      [] w = "PRIVMSG" -> 3
      [] OTHER -> 1

\* the if/elif chain on command and len(parts): some branch is taken
Dispatches(w, n) == w \in Known /\ n >= MinParts(w)

\* a handler that answers what it does not know with 421
UnknownCommand(c, w) == <<Line(c, "421", <<>>, {}, 0)>>

\* the chain has no else: nothing is sent
Unmatched(c, w) == <<>>

\* a line, here its first word and its number of words, that no branch
\* takes: handle_message returns
DoUnmatched(c) ==
    \E l \in {[word |-> "MODE", n |-> 2], [word |-> "JOIN", n |-> 1],
              [word |-> "PRIVMSG", n |-> 2], [word |-> "USER", n |-> 4]} :
    /\ ~Dispatches(l.word, l.n)
    /\ Begin(c, Cmd(l.word, <<>>, None))
    /\ sent' = [sent EXCEPT ![c] = Unmatched(c, l.word)]
    /\ pc' = [pc EXCEPT ![c] = "done"]
    /\ UNCHANGED <<reg, sess, locals, err, ncmd, env, shut, codec>>

\* data.decode() raises UnicodeDecodeError on a read that is not UTF-8:
\* except Exception (print), finally: client.disconnect()
RecvUndecodable(c) ==
    /\ pc[c] = "recv"
    /\ conn[c] = "open"
    /\ ncmd < env.cmds
    /\ ncmd' = ncmd + 1
    /\ cur' = [cur EXCEPT ![c] = Cmd("undecodable", <<>>, None)]
    /\ err' = [err EXCEPT ![c] = [kind |-> "UnicodeDecodeError", at |-> "h234"]]
    /\ mode' = [mode EXCEPT ![c] = "final"]
    /\ pc' = [pc EXCEPT ![c] = "d207"]
    /\ UNCHANGED <<reg, sess, channel, key, cname, it, dit, todo, pending, sent, env, shut, codec>>

\* ------------------------------ CAP, PING, WHOIS (124-133, 174-178, 183-188)
\* lines that all start with their command word, as the PONG does
StartBare(kind) == <<kind>>

\* the words a line starts with: send_numeric's ":irc.local {numeric}", the
\* relays' ":{self.nick}!~user@localhost COMMAND", and the texts "CAP * LS :",
\* "CAP * ACK :", "PONG :{parts[1]}" and "PONG" that self.send is given whole
Start(kind) ==
    CASE kind \in {"JOIN", "PART", "PRIVMSG"} -> <<":nick!~user@localhost", kind>>
      [] kind = "CAP" -> <<"CAP", "*">>
      [] kind = "PONG" -> <<"PONG">>
      [] OTHER -> <<":irc.local", kind>>

\* CAP LS and CAP REQ are answered with one line, CAP END with none
DoCap(c) ==
    \E sub \in {"LS", "END", "REQ"} :
    /\ Begin(c, Cmd("CAP", <<>>, None))
    /\ sent' = [sent EXCEPT ![c] = IF sub = "END" THEN <<>> ELSE <<Line(c, "CAP", <<>>, {}, 0)>>]
    /\ pc' = [pc EXCEPT ![c] = "done"]
    /\ UNCHANGED <<reg, sess, locals, err, ncmd, env, shut, codec>>

\* PING, with a token or without: one PONG line
DoPing(c) ==
    /\ Begin(c, Cmd("PING", <<>>, None))
    /\ sent' = [sent EXCEPT ![c] = <<Line(c, "PONG", <<>>, {}, 0)>>]
    /\ pc' = [pc EXCEPT ![c] = "done"]
    /\ UNCHANGED <<reg, sess, locals, err, ncmd, env, shut, codec>>

\* WHOIS target: 311, 312 and 318, whoever the target is
DoWhois(c) ==
    \E a \in env.target :
    /\ Begin(c, Cmd("WHOIS", a, None))
    /\ sent' = [sent EXCEPT ![c] = <<Line(c, "311", a, {}, 0), Line(c, "312", a, {}, 0),
                                     Line(c, "318", a, {}, 0)>>]
    /\ pc' = [pc EXCEPT ![c] = "done"]
    /\ UNCHANGED <<reg, sess, locals, err, ncmd, env, shut, codec>>

\* the handlers, with clients that send such lines and reads
ProtocolNext ==
    \E c \in Clients : \/ Step(c) \/ DoUnmatched(c) \/ RecvUndecodable(c)
                       \/ DoCap(c) \/ DoPing(c) \/ DoWhois(c)

ProtocolInit == env = ProtocolEnv /\ InitState /\ NoCodec
ProtocolSpec == ProtocolInit /\ [][ProtocolNext]_vars

\* ------------------------------------------ the line codec (229-237)
\* strings are sequences of characters
Strings(alphabet, n) == UNION {[1..k -> alphabet] : k \in 1..n}

\* the characters str.strip() and str.split() take for whitespace
Space == {" ", "\t", "\r", "\n"}

RECURSIVE LStrip(_, _)
\* str.lstrip(chars)
LStrip(s, chars) == IF s # <<>> /\ s[1] \in chars THEN LStrip(Tail(s), chars) ELSE s

RECURSIVE RStrip(_, _)
RStrip(s, chars) ==
    IF s # <<>> /\ s[Len(s)] \in chars THEN RStrip(SubSeq(s, 1, Len(s) - 1), chars) ELSE s

\* str.strip()
Strip(s) == RStrip(LStrip(s, Space), Space)

\* "\r\n" stands at i
CRLFAt(s, i) == i < Len(s) /\ s[i] = "\r" /\ s[i + 1] = "\n"

RECURSIVE SplitCRLF(_)
\* data.decode().split('\r\n')
SplitCRLF(s) ==
    IF \E i \in 1..Len(s) : CRLFAt(s, i)
    THEN LET i == CHOOSE i \in 1..Len(s) :
                      CRLFAt(s, i) /\ \A j \in 1..(i - 1) : ~CRLFAt(s, j)
         IN <<SubSeq(s, 1, i - 1)>> \o SplitCRLF(SubSeq(s, i + 2, Len(s)))
    ELSE <<s>>

RECURSIVE NonEmpty(_)
\* the pieces that are not empty
NonEmpty(ps) ==
    IF ps = <<>> THEN <<>>
    ELSE IF Head(ps) = <<>> THEN NonEmpty(Tail(ps))
    ELSE <<Head(ps)>> \o NonEmpty(Tail(ps))

\* for message in messages: if message.strip(): handle_message(message.strip())
Handled(data) ==
    LET ps == SplitCRLF(data) IN NonEmpty([i \in 1..Len(ps) |-> Strip(ps[i])])

\* data = conn.recv(1024) returns some of the bytes that have arrived; every
\* message of the read is handled before the next recv
RecvBytes ==
    /\ unread # <<>>
    /\ \E n \in 1..Len(unread) :
        /\ messages' = messages \o Handled(SubSeq(unread, 1, n))
        /\ unread' = SubSeq(unread, n + 1, Len(unread))
    /\ UNCHANGED <<reg, sess, locals, ctl, shut, bytes, message, msg>>

\* a peer sends letters and line ends
FramingInit ==
    /\ env = SessionEnv /\ InitState
    /\ bytes \in Strings({"a", "\r", "\n"}, MaxBytes)
    /\ unread = bytes
    /\ messages = <<>>
    /\ message = <<>>
    /\ msg = <<>>

FramingSpec == FramingInit /\ [][RecvBytes]_vars

\* ------------------------------------- the text of PRIVMSG (118-122, 155-167)
RECURSIVE Split(_)
\* str.split(): the maximal runs of characters that are not whitespace
Split(s) ==
    LET t == LStrip(s, Space) IN
    IF t = <<>> THEN <<>>
    ELSE LET n == CHOOSE n \in 1..Len(t) :
                      /\ \A j \in 1..n : t[j] \notin Space
                      /\ n = Len(t) \/ t[n + 1] \in Space
         IN <<SubSeq(t, 1, n)>> \o Split(SubSeq(t, n + 1, Len(t)))

RECURSIVE JoinWords(_)
\* " ".join(words)
JoinWords(ws) ==
    IF ws = <<>> THEN <<>>
    ELSE IF Len(ws) = 1 THEN ws[1]
    ELSE ws[1] \o <<" ">> \o JoinWords(Tail(ws))

\* parts = message.split(); msg = " ".join(parts[2:]).lstrip(":")
Text(m) == LET parts == Split(m) IN LStrip(JoinWords(SubSeq(parts, 3, Len(parts))), {":"})

\* elif command == "PRIVMSG" and len(parts) > 2: msg is what the members of
\* the target are sent
RelayText ==
    /\ message # <<>>
    /\ msg = <<>>
    /\ Split(message)[1] = <<"PRIVMSG">>
    /\ Len(Split(message)) > 2
    /\ msg' = <<Text(message)>>
    /\ UNCHANGED <<reg, sess, locals, ctl, shut, bytes, unread, messages, message>>

\* the message is PRIVMSG #t and what follows; a word that the parser never
\* looks into is one character of the string.  handle_client has stripped
\* the message: it does not end in a space
TrailingInit ==
    /\ env = SessionEnv /\ InitState
    /\ bytes = <<>>
    /\ unread = <<>>
    /\ messages = <<>>
    /\ \E t \in Strings({"a", " ", ":"}, MaxText) :
          t[Len(t)] # " " /\ message = <<"PRIVMSG", " ", "#t", " ">> \o t
    /\ msg = <<>>

TrailingSpec == TrailingInit /\ [][RelayText]_vars

\* ================================================================ properties
\* no handler is inside handle_message or disconnect
Quiescent ==
    /\ \A c \in Clients : pc[c] \in {"idle", "recv", "next", "done", "ended"}
    /\ pc[Main] \in {"accept", "s295", "s296", "exit"}

\* c is in the member set of the channel under key k
Member(c, k) == k \in DOMAIN channels /\ c \in channels[k]

\* the handler is in part_channel, called for PART or by disconnect
Parting(c) == cur[c].cmd \in {"PART", "QUIT", "EOF"}
\* part_channel has returned
PartOver(c) == pc[c] \in {"done", "d211"}
\* the statements of part_channel and join_channel that index the shared dicts
PartLabels == {"p94", "p95", "p104", "p108", "p109", "p111"}
JoinLabels == {"j70", "j73", "j80", "j84", "j85"}
\* part_channel between its removal of self and its deletion of the channel
MidPart == {"p98", "p104", "p105", "p108", "p109"}

\* the copies of a relayed PRIVMSG that the lines s hold for client d
CopiesIn(s, d) == Cardinality({i \in DOMAIN s : s[i].to = d /\ s[i].kind = "PRIVMSG"})
\* the clients that have been in the set ever since c's loop took its iterator
Throughout(c) == IF it[c].on THEN SetOf(it[c]) \ it[c].fresh ELSE {}

\* ---- C1
\* C1 as stated: in every quiescent state, for every client c and key k, k is
\* in c.channels if and only if k is a key of channels and c is in channels[k].
C1_Membership ==
    Quiescent =>
        \A c \in Clients : \A k \in DOMAIN channels \cup cchannels[c] :
            (k \in cchannels[c]) <=> Member(c, k)

\* ---- C2
\* C2 as stated: when two handlers are in part_channel for the same key, neither
\* fails on a missing key, and once both have returned no client's channel set
\* names the key unless channels has it.
C2_ConcurrentPart ==
    \A c, d \in Clients :
        (c # d /\ Parting(c) /\ Parting(d) /\ key[c] = key[d] /\ key[c] # <<>>) =>
            /\ ~(err[c].kind = "KeyError" /\ err[c].at \in PartLabels)
            /\ (PartOver(c) /\ PartOver(d)) =>
                   \A e \in Clients : key[c] \in cchannels[e] => key[c] \in DOMAIN channels

\* ---- C3
\* part_channel has found the member set empty after its removal of self
LastOut(d) ==
    /\ Parting(d)
    /\ \/ pc[d] \in {"p109", "p110", "p111"}
       \/ PartOver(d) /\ key[d] \notin DOMAIN channels

\* C3 as stated: a JOIN of key k that overlaps another handler's part_channel
\* removing the last member of k does not fail on a missing key, and when both
\* have returned the joiner holds k and is in the member set that channels has
\* under k.
C3_JoinDuringLastPart ==
    \A c, d \in Clients :
        (c # d /\ cur[c].cmd = "JOIN" /\ LastOut(d) /\ key[d] = key[c]) =>
            /\ ~(err[c].kind = "KeyError" /\ err[c].at \in JoinLabels)
            /\ (pc[c] = "done" /\ PartOver(d)) =>
                   (key[c] \in cchannels[c] /\ Member(c, key[c]))

\* ---- C4
\* C4 as stated: when two handlers JOIN the same key and both have returned,
\* neither has failed and both clients are in the member set channels has
\* under the key.
C4_ConcurrentJoin ==
    \A c, d \in Clients :
        (c # d /\ cur[c].cmd = "JOIN" /\ cur[d].cmd = "JOIN" /\ key[c] = key[d]) =>
            /\ err[c].at \notin JoinLabels
            /\ (pc[c] = "done" /\ pc[d] = "done") =>
                   (Member(c, key[c]) /\ Member(d, key[c]))

\* ---- C5
\* C5 as stated: in every quiescent state, the initial one included, every key
\* of channels has a non-empty member set, and a LIST answered while no client
\* is in any channel holds no 322 line.
C5_ChannelIffMembers ==
    Quiescent =>
        /\ \A k \in DOMAIN channels : channels[k] # {}
        /\ \A c \in Clients :
               (pc[c] = "done" /\ cur[c].cmd = "LIST" /\ \A d \in Clients : cchannels[d] = {}) =>
                   \A i \in DOMAIN sent[c] : sent[c][i].kind # "322"

\* ---- C6
\* C6 as stated: while another handler is in part_channel for a key, past its
\* removal of self, no LIST (line 193) and no NAMES (line 201) reads an empty
\* member set under that key.
C6_NoEmptyChannelSeen ==
    [][\A c, d \in Clients :
          (/\ c # d
           /\ pc[d] \in MidPart
           /\ key[d] = key[c]
           /\ \/ pc[c] = "l193" /\ pc'[c] = "l191"
              \/ pc[c] = "n201" /\ pc'[c] = "done")
          => channels[key[c]] # {}]_vars

\* ---- C7
\* C7 as stated: the relay loop of a PRIVMSG (lines 165-167) never ends in an
\* exception, and when it ends every client other than the sender that has been
\* in the member set throughout the loop has exactly one copy.
C7_BroadcastCompletes ==
    [][\A c \in Clients :
          pc[c] \in {"m165", "m166"} =>
              /\ pc'[c] \in {"m165", "m166", "done"}
              /\ pc'[c] = "done" =>
                     \A d \in Throughout(c) \ {c} : CopiesIn(sent'[c], d) = 1]_vars

\* ---- C8
\* C8 as stated: when the relay loop of a PRIVMSG sent by a member is over, the
\* sender has no copy and every other client that has been a member throughout
\* has exactly one copy, which names the channel as channel_names does.
C8_PrivmsgDelivery ==
    [][\A c \in Clients :
          (pc[c] = "m166" /\ pc'[c] # "m166" /\ c \in Throughout(c)) =>
              /\ CopiesIn(sent'[c], c) = 0
              /\ \A d \in Throughout(c) \ {c} :
                     /\ CopiesIn(sent'[c], d) = 1
                     /\ \A i \in DOMAIN sent'[c] :
                            (sent'[c][i].to = d /\ key[c] \in DOMAIN channel_names) =>
                                sent'[c][i].chan = channel_names[key[c]]]_vars

\* ---- C9
\* a registered member has sent PRIVMSG to its channel under another casing of
\* the channel's name, and handle_message has returned
MemberSend(c) ==
    /\ pc[c] = "done"
    /\ cur[c].cmd = "PRIVMSG"
    /\ registered[c]
    /\ Member(c, key[c])
    /\ key[c] \in DOMAIN channel_names
    /\ cur[c].chan # channel_names[key[c]]

Kinds(s) == [i \in DOMAIN s |-> s[i].kind]
Numerics == {WelcomeNumerics[i] : i \in DOMAIN WelcomeNumerics}

\* C10: on every connection the welcome burst is sent at most once; it has
\* been sent exactly when both a NICK and a USER have been accepted; and the
\* lines of a burst are 001 002 003 004 251 255 372 376, in that order, to
\* the client itself.
C10_RegistrationGating ==
    \A c \in Clients :
        /\ welcomed[c] <= 1
        /\ (welcomed[c] = 1) <=> (nick[c] # None /\ user[c] # None)
        /\ (welcomed[c] = 1) <=> registered[c]
        /\ (\E i \in DOMAIN sent[c] : sent[c][i].kind \in Numerics) =>
               /\ cur[c].cmd \in {"NICK", "USER"}
               /\ Kinds(sent[c]) = WelcomeNumerics
               /\ \A i \in DOMAIN sent[c] : sent[c][i].to = c

\* a NICK or USER repeated after registration has been answered with nothing
C10_Witness ==
    \E c \in Clients :
        /\ pc[c] = "done"
        /\ cur[c].cmd \in {"NICK", "USER"}
        /\ welcomed[c] = 1
        /\ sent[c] = <<>>

\* ---- C11
\* C11: whenever no command is half-handled on a connection, registered is
\* true exactly when nick and user are both set; and registered, once true,
\* stays true through later NICK, QUIT and disconnect.
C11_RegisteredFlag ==
    /\ [](\A c \in Clients : registered[c] <=> (nick[c] # None /\ user[c] # None))
    /\ [][\A c \in Clients : registered[c] => registered'[c]]_vars

\* a registered client has changed its nick and then been disconnected
C11_Witness ==
    \E c \in Clients : registered[c] /\ nick[c] = "bob" /\ conn[c] = "closed"

\* ---- C12
\* thread t leaves disconnect by line 218, self.conn.close()
Closes(t) == pc[t] = "d211" /\ todo[t] = {} /\ mode'[t] # mode[t]

\* C12 as stated: when disconnect closes a client's connection, the client is
\* in the global client set no more, is in no channel's member set, and its
\* own channel set is empty.
C12_DisconnectOrder ==
    [][\A t \in Threads :
          Closes(t) =>
              /\ Self(t) \notin clients
              /\ cchannels[Self(t)] = {}
              /\ \A k \in DOMAIN channels : Self(t) \notin channels[k]]_vars

\* ---- C13
\* the handler thread of c is over: handle_client has returned, or an exception
\* has left its finally block
Ended(c) == pc[c] \in {"ended", "crashed"}

\* C13 as stated (its safety half): when the handler of a connection has ended,
\* the client is absent from clients, is in no channel's member set, and its
\* connection is closed.
C13_TeardownRestores ==
    \A c \in Clients :
        Ended(c) =>
            /\ c \notin clients
            /\ conn[c] = "closed"
            /\ \A k \in DOMAIN channels : c \notin channels[k]

\* ---- C14
\* the handler is in a part_channel that disconnect has called
DiscLabels == {"p94", "p95", "p98", "p104", "p105", "p108", "p109", "p110", "p111"}
Disconnecting(c) == mode[c] \in {"quit", "final"} /\ pc[c] \in DiscLabels
\* an exception leaves disconnect
DiscFails(c) == pc'[c] = "crashed" \/ (mode[c] = "quit" /\ mode'[c] = "final")
\* the PART lines naming channel n that the lines s hold for client d
PartsIn(s, d, n) ==
    Cardinality({i \in DOMAIN s : s[i].to = d /\ s[i].kind = "PART" /\ s[i].chan = n})

\* C14 as stated: each part_channel that disconnect calls runs as for PART: it
\* raises nothing; when its loop ends every remaining member has exactly one
\* PART line naming the channel by its display name; and when it returns the
\* channel, if left without members, is gone from channels and channel_names.
C14_DisconnectParts ==
    [][\A c \in Clients :
          Disconnecting(c) =>
              /\ ~DiscFails(c)
              /\ (pc[c] = "p105" /\ pc'[c] = "p108") =>
                     \A d \in Throughout(c) : PartsIn(sent'[c], d, cname[c]) = 1
              /\ pc'[c] = "d211" =>
                     /\ key[c] \in DOMAIN channels' => channels'[key[c]] # {}
                     /\ key[c] \notin DOMAIN channels' => key[c] \notin DOMAIN channel_names']_vars

\* ---- C15
\* the lines s hold a JOIN line
HasJoin(s) == \E i \in DOMAIN s : s[i].kind = "JOIN"

\* C15 as stated, for the line to the joiner: when join_channel reaches line 73
\* for a client that is already in the member set of the key, it emits no
\* JOIN line.
C15_NoSecondJoin ==
    [][\A c \in Clients :
          (pc[c] = "j73" /\ pc'[c] = "j80" /\ Member(c, key[c])) => ~HasJoin(sent'[c])]_vars

\* ---- C16
\* the kinds of line that name a channel by canonical_name
ChannelKinds == {"JOIN", "PART", "PRIVMSG", "322", "353"}
\* the lines that thread t sends in this step
NewLines(t) == {sent'[t][i] : i \in {j \in DOMAIN sent'[t] : j > Len(sent[t])}}

\* C16 as stated: every JOIN, PART, PRIVMSG, 322 or 353 line sent about a key
\* that channel_names holds names the channel as channel_names does.
C16_CanonicalName ==
    [][\A t \in Threads : \A l \in NewLines(t) :
          (l.kind \in ChannelKinds /\ key[t] \in DOMAIN channel_names) =>
              l.chan = channel_names[key[t]]]_vars

\* ---- C17
\* C17 as stated: no step changes the display name that channel_names holds
\* for a key; a name is only recorded for a new key, or deleted.
C17_NameFixed ==
    [][\A k \in DOMAIN channel_names \cap DOMAIN channel_names' :
          channel_names'[k] = channel_names[k]]_vars

\* ---- C18
\* join_channel reads the display name (line 70) for a key that has no member:
\* this JOIN is the first to name the key since the server's start or since
\* the channel's deletion
FirstJoin(c) ==
    /\ pc[c] = "j70"
    /\ pc'[c] = "j73"
    /\ key[c] \in DOMAIN channels
    /\ channels[key[c]] = {}

\* C18 as stated: the display name that the first JOIN of a key finds recorded
\* is the name that this JOIN gave, for every key, '#hackerbot' included.
C18_FirstJoinNames ==
    [][\A c \in Clients : FirstJoin(c) => cname'[c] = channel[c]]_vars

\* ---- C19
\* part_channel returns, to handle_message or to disconnect
PartReturns(c) == pc[c] \in {"p108", "p110", "p111"} /\ pc'[c] \in {"done", "d211"}
\* the keys of the channels that the 322 lines among s name
Listed(s) == {Lower(s[i].chan) : i \in {j \in DOMAIN s : s[j].kind = "322"}}

\* C19 as stated: when part_channel returns, for PART or within disconnect, the channel
\* either has a member left or is gone from channels and from channel_names;
\* a LIST reply has entries for the keys of channels and for no other; and a
\* JOIN that found the key absent records the joiner's own casing over an
\* empty member set, to which it then adds the joiner alone.
C19_EmptyChannelCleanup ==
    [][\A c \in Clients :
          /\ PartReturns(c) =>
                 \/ key[c] \notin DOMAIN channels' /\ key[c] \notin DOMAIN channel_names'
                 \/ key[c] \in DOMAIN channels' /\ channels'[key[c]] # {}
          /\ (pc[c] = "l191" /\ pc'[c] = "done") => Listed(sent'[c]) = DOMAIN channels
          /\ (pc[c] = "j67" /\ pc'[c] = "j70") =>
                 /\ channel_names'[key[c]] = channel[c]
                 /\ channels'[key[c]] = {}
          /\ (pc[c] = "j73" /\ pc'[c] = "j80" /\ channels[key[c]] = {}) =>
                 channels'[key[c]] = {c}]_vars

\* ---- C20
\* the broadcast loops of join_channel, part_channel and PRIVMSG, and the
\* kind of line each sends
LoopLabels == {"j85", "p105", "m166"}
LoopKind(c) == CASE pc[c] = "j85" -> "JOIN" [] pc[c] = "p105" -> "PART" [] OTHER -> "PRIVMSG"
\* one of the lines s was lost to a failed conn.send
Failed(s) == \E i \in DOMAIN s : ~s[i].ok
\* the lines s hold the loop's line for d, delivered if d's connection is open
Served(c, d) ==
    \E i \in DOMAIN sent[c] :
        /\ sent[c][i].to = d
        /\ sent[c][i].kind = LoopKind(c)
        /\ conn[d] = "open" => sent[c][i].ok

\* C20 as stated: a send that fails within a broadcast loop raises nothing, changes no
\* membership and leaves the handler in its loop; and when a loop in which a
\* send has failed ends, every other client that has been in the member set
\* throughout has been sent its line, the JOIN or PART that called the loop
\* stands, and the handler goes on.
C20_SendFailureIsolated ==
    [][\A c \in Clients :
          pc[c] \in LoopLabels =>
              /\ \A l \in NewLines(c) :
                     ~l.ok => /\ pc'[c] = pc[c]
                              /\ err'[c] = err[c]
                              /\ channels' = channels
                              /\ cchannels' = cchannels
              /\ (pc'[c] # pc[c] /\ Failed(sent[c])) =>
                     /\ pc'[c] \in {"done", "p108"}
                     /\ \A d \in Throughout(c) \ {c} : Served(c, d)
                     /\ pc[c] = "j85" => (Member(c, key[c]) /\ key[c] \in cchannels[c])
                     /\ pc[c] = "p105" => (~Member(c, key[c]) /\ key[c] \notin cchannels[c])]_vars

\* ---- C21
\* C21: a protocol error never tears the connection down: while a handler
\* whose connection is open has in hand an unknown command, a command that
\* lacks arguments or an undecodable line, its client is in the client set
\* and the handler is not on its way out of the read loop.
C21_ErrorsKeepConnection ==
    LET Rejected(m) ==
            \/ m.cmd = "undecodable"
            \/ m.cmd \notin Known \cup {"none", "EOF"}
            \/ m.cmd \in Known /\ m.chan = <<>> /\ m.nick = None /\ MinParts(m.cmd) > 1
    IN \A c \in Clients :
           (Rejected(cur[c]) /\ conn[c] = "open")
               => (c \in clients /\ mode[c] = "none" /\ pc[c] = "done")

\* ---- C22
\* C22: a command whose name is not among the known ones is dropped in
\* silence: the step that takes it from the read sends no line and leaves
\* every session and the registry as they were.
C22_UnknownDropped ==
    [][\A c \in Clients :
          (cur'[c] # cur[c] /\ cur'[c].cmd \notin Known \cup {"none", "EOF", "undecodable"})
              => (sent'[c] = <<>> /\ pc'[c] = "done" /\ reg' = reg /\ sess' = sess)]_vars

C22_Witness ==
    \E c \in Clients :
        /\ cur[c].cmd = "MODE" /\ pc[c] = "done" /\ sent[c] = <<>>
        /\ cchannels[c] # {} /\ c \in clients

\* ---- C23
\* C23: failure isolation: no handler has an exception raised in it by what
\* the other handlers do to the shared maps; a handler leaves its read loop
\* only for its own end of input, read error, QUIT or the shutdown.
C23_FailureIsolation ==
    \A c \in Clients : err[c].kind \notin {"KeyError", "RuntimeError"}

\* ---- C24
\* C24: line framing: however the bytes of a connection are cut into reads,
\* the messages handed to handle_message are those of a single read of all
\* the bytes; a line cut by a read is kept back and handled once, whole.
C24_LineFraming ==
    (bytes # <<>> /\ unread = <<>>) => messages = Handled(bytes)

\* ---- C25
\* C25: the relayed text of a PRIVMSG is, character for character, what
\* follows the first ':' that starts a word of the line, runs of spaces and
\* further ':' included.
C25_TrailingVerbatim ==
    LET MarkerAt(i) == message[i] = ":" /\ (i = 1 \/ message[i - 1] \in Space)
        first == CHOOSE i \in 1..Len(message) :
                     MarkerAt(i) /\ \A j \in 1..(i - 1) : ~MarkerAt(j)
    IN (msg # <<>> /\ \E i \in 1..Len(message) : MarkerAt(i))
           => msg[1] = SubSeq(message, first + 1, Len(message))

\* ---- C26
\* C26: join_channel sends the joiner its JOIN echo, 331, 353 and 366 in
\* this order before any other member is sent the JOIN line, and when its
\* loop is over every other client that has been a member throughout has
\* exactly one JOIN line.
C26_JoinReplyOrder ==
    [][LET JoinOrder(s, c) ==
               /\ Len(s) >= 4
               /\ <<s[1].kind, s[2].kind, s[3].kind, s[4].kind>> = <<"JOIN", "331", "353", "366">>
               /\ \A i \in 1..4 : s[i].to = c
               /\ \A i \in 5..Len(s) : s[i].kind = "JOIN" /\ s[i].to # c
           JoinsIn(s, d) == Cardinality({i \in DOMAIN s : s[i].to = d /\ s[i].kind = "JOIN"})
       IN \A c \in Clients :
              (cur[c].cmd = "JOIN" /\ pc[c] = "j85" /\ pc'[c] # "j85") =>
                  /\ JoinOrder(sent'[c], c)
                  /\ \A d \in Throughout(c) \ {c} : JoinsIn(sent'[c], d) = 1]_vars

\* ---- C27
\* C27: whatever the joiner has sent before (a NICK or not, a USER or not),
\* the 353 line that join_channel sends it lists the joiner and, with it,
\* every member of the channel.
C27_NamesListJoiner ==
    [][\A c \in Clients :
          (pc[c] = "j80" /\ pc'[c] = "j84") =>
              \E i \in DOMAIN sent'[c] :
                  /\ sent'[c][i].kind = "353"
                  /\ c \in sent'[c][i].who
                  /\ sent'[c][i].who = channels[key[c]]]_vars

\* ---- C28
\* C28: when the loop of a PART by a member, under any casing of the name,
\* is over, the leaver has exactly one PART line and so has every client
\* that has been a member throughout; and when the PART returns the leaver
\* is not in the member set of the key and the key is not in the leaver's
\* channel set.
C28_PartByMember ==
    [][\A c \in Clients :
          (cur[c].cmd = "PART" /\ pc[c] \in DiscLabels) =>
              /\ (pc[c] = "p105" /\ pc'[c] # "p105") =>
                     /\ PartsIn(sent'[c], c, cname[c]) = 1
                     /\ \A d \in Throughout(c) : PartsIn(sent'[c], d, cname[c]) = 1
              /\ pc'[c] = "done" =>
                     /\ key[c] \in DOMAIN channels' => c \notin channels'[key[c]]
                     /\ key[c] \notin cchannels'[c]]_vars

\* ---- C29
\* C29: a PART for a channel that is not in the client's channel set, whether
\* the channel exists or not, sends no line to anyone and changes neither the
\* channel map, nor the display names, nor a member set, nor a client's
\* channel set: the step that takes it from the read is all of it.
C29_PartByNonMember ==
    [][\A c \in Clients :
          (pc[c] = "next" /\ pc'[c] # "next" /\ cur'[c].cmd = "PART"
             /\ key'[c] \notin cchannels[c]) =>
              /\ pc'[c] = "done"
              /\ sent' = sent
              /\ reg' = reg
              /\ cchannels' = cchannels]_vars

C29_Witness ==
    \E c \in Clients :
        /\ cur[c].cmd = "PART" /\ pc[c] = "done" /\ sent[c] = <<>>
        /\ \E d \in Clients \ {c} : Member(d, key[c])

\* ---- C30
\* C30: a PRIVMSG (with its text) to a '#'-target whose key is not in the
\* channel map, or to a target that does not start with '#', is answered by
\* one 401 to the sender and nothing else: no line to another client, and
\* the registry as it was.
C30_NoSuchTarget ==
    [][\A c \in Clients :
          (pc[c] = "next" /\ pc'[c] # "next" /\ cur'[c].cmd = "PRIVMSG"
             /\ cur'[c].chan # <<>>
             /\ (~StartsWithHash(cur'[c].chan) \/ Lower(cur'[c].chan) \notin DOMAIN channels)) =>
              /\ pc'[c] = "done"
              /\ Len(sent'[c]) = 1
              /\ sent'[c][1].kind = "401" /\ sent'[c][1].to = c
              /\ \A d \in Threads \ {c} : sent'[d] = sent[d]
              /\ reg' = reg]_vars

C30_Witness ==
    \E c \in Clients :
        /\ cur[c].cmd = "PRIVMSG" /\ pc[c] = "done" /\ ~StartsWithHash(cur[c].chan)
        /\ Len(sent[c]) = 1 /\ sent[c][1].kind = "401"
        /\ \E d \in Clients \ {c} : Member(d, LowerT)

\* ---- C31
\* C31: a LIST ends with the 323 marker, sent once, after one 322 line for
\* each channel of the channel map, and changes nothing in the registry or
\* in a session.
C31_ListReplies ==
    [][\A c \in Clients :
          (cur[c].cmd = "LIST" /\ pc[c] \in {"l191", "l192", "l193"}) =>
              /\ pc'[c] # pc[c] => (reg' = reg /\ sess' = sess)
              /\ pc'[c] \notin {"l191", "l192", "l193"} =>
                     LET s == sent'[c] IN
                     /\ Len(s) = Cardinality(DOMAIN channels) + 1
                     /\ s[Len(s)].kind = "323"
                     /\ \A i \in 1..(Len(s) - 1) : s[i].kind = "322"]_vars

\* ---- C32
\* C32: a NAMES ends with the 366 marker, sent once, whether the folded name
\* is a key of the channel map or not; a 353 line goes before it exactly
\* when it is one; and nothing in the registry changes.
C32_NamesReplies ==
    [][\A c \in Clients :
          (cur'[c].cmd = "NAMES" /\ pc[c] \in {"next", "n200", "n201"} /\ pc'[c] # pc[c]) =>
              /\ reg' = reg
              /\ pc'[c] \notin {"n200", "n201"} =>
                     Kinds(sent'[c]) = IF key'[c] \in DOMAIN channels
                                       THEN <<"353", "366">> ELSE <<"366">>]_vars

\* ---- C33
\* C33: when the disconnect of a QUIT returns, the client is out of the client
\* set and out of every member set, and from then on its handler hands no
\* further message of that connection to handle_message.
C33_QuitTerminal ==
    [][\A c \in Clients :
          /\ (pc[c] = "d211" /\ mode[c] = "quit" /\ pc'[c] = "done") =>
                 (c \notin clients' /\ \A k \in DOMAIN channels' : c \notin channels'[k])
          /\ (conn[c] = "closed" /\ pc[c] = "next") => pc'[c] = "next"]_vars

\* ---- C34
\* the connections whose conn.send a thread stands at: a member's in a turn of
\* a broadcast loop (client.send), its own in join_channel's replies
\* (self.send). send takes no lock, so nothing orders two threads that stand
\* at a conn.send of one connection: both are in it when they go on together.
Writes(t) ==
    IF pc[t] \in LoopLabels /\ it[t].on /\ ~ItChanged(t)
    THEN (MustVisit(t) \cup MayVisit(t)) \ {Self(t)}
    ELSE IF pc[t] \in {"j73", "j80"} /\ key[t] \in DOMAIN channels THEN {Self(t)}
    ELSE {}

\* C34: no two threads are writing to one client's connection at the same
\* time.
C34_SingleWriter ==
    \A c, d \in Clients : c # d => Writes(c) \cap Writes(d) = {}

\* ---- C35
\* C35 as stated: every line the server sends starts with ":irc.local" and a
\* numeric or with ":<nick>!~user@localhost" and JOIN, PART or PRIVMSG.
C35_TwoForms ==
    \A c \in Clients : \A i \in DOMAIN sent[c] :
        LET w == Start(sent[c][i].kind) IN
        \/ w[1] = ":irc.local" /\ w[2] \in Numerics \cup {"331", "353", "366", "401", "322",
                                                          "323", "311", "312", "318"}
        \/ w[1] = ":nick!~user@localhost" /\ w[2] \in {"JOIN", "PART", "PRIVMSG"}

\* C35, amended: every line the server sends has one of these two forms or is
\* an answer to CAP LS, CAP REQ or PING, which start with "CAP *" and with
\* "PONG" and carry no prefix.
C35_ReplyForms ==
    \A c \in Clients : \A i \in DOMAIN sent[c] :
        LET w == Start(sent[c][i].kind) IN
        \/ w[1] = ":irc.local" /\ w[2] \in Numerics \cup {"331", "353", "366", "401", "322",
                                                          "323", "311", "312", "318"}
        \/ w[1] = ":nick!~user@localhost" /\ w[2] \in {"JOIN", "PART", "PRIVMSG"}
        \/ w \in {<<"CAP", "*">>, <<"PONG">>}

\* a PONG has gone to one client while the JOIN echo and the 331 of a JOIN
\* have gone to another
C35_Witness ==
    \E c, d \in Clients :
        /\ c # d
        /\ \E i \in DOMAIN sent[c] : sent[c][i].kind = "PONG" /\ sent[c][i].to = c
        /\ \E i, j \in DOMAIN sent[d] : sent[d][i].kind = "JOIN" /\ sent[d][j].kind = "331"

\* ---- C36
\* C36: when main has gone through its shutdown after a termination signal
\* and the process exits, the client set is empty and no channel has a
\* member.
C36_ShutdownClears ==
    pc[Main] = "exit" =>
        /\ clients = {}
        /\ \A k \in DOMAIN channels : channels[k] = {}

\* ---- C37
\* C37: whenever no handler is inside a JOIN, a PART or a disconnect, the
\* channel map and the display-name map have the same keys.
C37_SameKeys ==
    Quiescent => DOMAIN channels = DOMAIN channel_names

\* ---- C38
\* C38: whenever no handler is inside a JOIN, a PART or a disconnect, every
\* member of a channel is in the client set.
C38_MembersAreClients ==
    Quiescent => \A k \in DOMAIN channels : channels[k] \subseteq clients

\* ---- C39
\* C39: a disconnect of a client whose connection an earlier disconnect has
\* closed sends no line, changes nothing in the registry and raises no error.
C39_SecondDisconnect ==
    [][\A t \in Threads :
          (mode[t] \in {"quit", "final", "main"} /\ conn[Self(t)] = "closed" /\ pc'[t] # pc[t]) =>
              /\ reg' = reg
              /\ Len(sent'[t]) <= Len(sent[t])
              /\ err'[t] = err[t]]_vars

\* ---- C40
\* C40: a JOIN by a client that is a member of the channel already, in any
\* casing of its name, leaves the channel map, the display names, the member
\* sets and every client's channel set as they are.
C40_JoinIdempotent ==
    [][\A c \in Clients :
          (/\ cur'[c].cmd = "JOIN"
           /\ pc[c] \in {"next", "j66", "j67", "j70", "j73", "j80", "j84", "j85"}
           /\ pc'[c] # pc[c]
           /\ Member(c, key'[c])
           /\ key'[c] \in cchannels[c]) =>
              (reg' = reg /\ cchannels' = cchannels)]_vars

\* a member of a channel is joining it again under another casing than the
\* display name, and stands at the add of line 73
C40_Witness ==
    \E c \in Clients :
        /\ pc[c] = "j73"
        /\ cur[c].cmd = "JOIN"
        /\ Member(c, key[c])
        /\ key[c] \in cchannels[c]
        /\ channel[c] # channel_names[key[c]]

====
